---- MODULE Spec2Model ----
(***************************************************************************)
(* Sleep-pattern pipeline of coddle-expo: the age baseline table, the      *)
(* EWMA pattern learner (utils/learner.ts), the forward schedule simulator *)
(* (utils/schedule.ts) and the rule-based coach (utils/coach.ts).          *)
(*                                                                         *)
(* Units.  Instants are whole minutes on a local time line without DST     *)
(* (minute 0 is a local midnight), so differenceInMinutes is a             *)
(* subtraction and startOfDay rounds down to a multiple of 1440.           *)
(* Confidence is held in hundredths (0.3 is 30, 1.0 is 100).  The EWMA     *)
(* accumulators are held as exact decimals (see Fold), where the code uses *)
(* IEEE doubles.                                                           *)
(***************************************************************************)
EXTENDS Integers, Sequences, FiniteSets, TLC

VARIABLES
    sessions,       \* SleepSession[] handed to the learner and the coach
    currentState,   \* updateLearnerState's currentState argument (or null)
    ageMonths,      \* updateLearnerState's ageMonths argument
    learnerState,   \* LearnerState: result of update / input of generate, evaluate
    rerun,          \* result of update called again on its own result
    extended,       \* result of update on the session list plus one session
    added,          \* the session that was added for `extended`
    lastSession,    \* generateSchedule's lastSession argument (or none)
    activeProfile,  \* BabyProfile (its birth date) or none
    now,            \* generateSchedule's now argument
    adjustment,     \* generateWhatIfSchedule's adjustment argument
    wallClock,      \* the device date, read by new Date()
    uuid,           \* number of identifiers uuidv4() has handed out
    schedule,       \* ScheduleBlock[] returned by generateSchedule
    schedule2,      \* ScheduleBlock[] returned by a second, identical call
    whatIf,         \* ScheduleBlock[] returned by generateWhatIfSchedule
    iterations,     \* blockCount when the last generateSchedule call returned
    coachTips,      \* CoachTip[] returned by generateCoachTips
    coachTips2,     \* CoachTip[] returned by a second, identical call
    extendedTips,   \* CoachTip[] returned for the session list plus `added`
    ageBaseline,    \* the AGE_BASELINES entry returned by getBaselineForAge
    store,          \* useStore: sessions, learnerState, schedule, coachTips
    calls,          \* the addSession / updateSession / deleteSession calls
    notificationLog,\* rows of the notification_log table
    notifyOrder,    \* the calls in the order they called scheduleNotifications
    profileState,   \* useStore: profiles, activeProfileId, profile
    disk,           \* what the database and AsyncStorage hold
    done            \* sequence of the calls made so far

vars == <<sessions, currentState, ageMonths, learnerState, rerun, extended,
          added, lastSession, activeProfile, now, adjustment, wallClock, uuid,
          schedule, schedule2, whatIf, iterations, coachTips, coachTips2, extendedTips,
          ageBaseline, store, calls, notificationLog, notifyOrder,
          profileState, disk, done>>

learnerVars == <<sessions, currentState, ageMonths, learnerState, rerun,
                 extended, added>>

scheduleVars == <<lastSession, activeProfile, now, adjustment, uuid, schedule,
                  schedule2, whatIf, iterations>>

coachVars == <<coachTips, coachTips2, extendedTips, ageBaseline>>

storeVars == <<store, calls, notificationLog, notifyOrder, profileState, disk>>

----------------------------------------------------------------------------
(* Bounds of the model *)

\* longest free-form session list drawn at start
MaxLen == 3

\* longest chronological chain of sessions drawn at start
MaxChain == 8

\* oldest age, in months, a baseline is looked up for
MaxAge == 40

\* number of store calls that may be in flight or finished
MaxCalls == 2

\* the days of a day-by-day log
MaxDays == 3

\* the profile and session calls made one after the other
MaxSteps == 4

----------------------------------------------------------------------------
(* Small helpers *)

Min(a, b) == IF a < b THEN a ELSE b

Max(a, b) == IF a > b THEN a ELSE b

Abs(a) == IF a < 0 THEN 0 - a ELSE a

\* Array.prototype.slice(0, n)
Take(s, n) == SubSeq(s, 1, Min(n, Len(s)))

\* the elements of a sequence, as a set
Range(s) == {s[i] : i \in 1..Len(s)}

----------------------------------------------------------------------------
(* Types *)

\* a session without endISO (still open)
NoEnd == 0 - 1

Session(i, s, e, d) == [id |-> i, startISO |-> s, endISO |-> e, deleted |-> d]

\* null passed for a LearnerState
NullState ==
    [null |-> TRUE, version |-> 0, ewmaNapLengthMin |-> 0,
     ewmaWakeWindowMin |-> 0, lastUpdatedISO |-> [month |-> 0, day |-> 0],
     confidence |-> 0]

\* null passed for a SleepSession
NoSession == Session(0, 0, NoEnd, TRUE)

\* duration of a session in minutes (differenceInMinutes(end, start))
Duration(s) == s.endISO - s.startISO

----------------------------------------------------------------------------
(* constants/baselines.ts *)

AGE_BASELINES ==
    << [minAgeMonths |-> 0, maxAgeMonths |-> 3, wakeWindowMin |-> 30,
        wakeWindowTypical |-> 60, wakeWindowMax |-> 90, napMin |-> 30,
        napTypical |-> 45, napMax |-> 120],
       [minAgeMonths |-> 4, maxAgeMonths |-> 6, wakeWindowMin |-> 75,
        wakeWindowTypical |-> 105, wakeWindowMax |-> 150, napMin |-> 45,
        napTypical |-> 60, napMax |-> 120],
       [minAgeMonths |-> 7, maxAgeMonths |-> 12, wakeWindowMin |-> 120,
        wakeWindowTypical |-> 150, wakeWindowMax |-> 210, napMin |-> 45,
        napTypical |-> 75, napMax |-> 120],
       [minAgeMonths |-> 13, maxAgeMonths |-> 18, wakeWindowMin |-> 180,
        wakeWindowTypical |-> 210, wakeWindowMax |-> 270, napMin |-> 60,
        napTypical |-> 90, napMax |-> 150],
       [minAgeMonths |-> 19, maxAgeMonths |-> 36, wakeWindowMin |-> 240,
        wakeWindowTypical |-> 300, wakeWindowMax |-> 360, napMin |-> 60,
        napTypical |-> 120, napMax |-> 180] >>

\* the device date at which the module was loaded
LoadDate == [month |-> 24300, day |-> 15]

DEFAULT_LEARNER_STATE ==
    [null |-> FALSE, version |-> 1, ewmaNapLengthMin |-> 60,
     ewmaWakeWindowMin |-> 90, lastUpdatedISO |-> LoadDate, confidence |-> 50]

\* no baseline looked up yet
NoBaseline ==
    [minAgeMonths |-> 0, maxAgeMonths |-> 0, wakeWindowMin |-> 0,
     wakeWindowTypical |-> 0, wakeWindowMax |-> 0, napMin |-> 0,
     napTypical |-> 0, napMax |-> 0]

\* mutant: the fallback is the first bracket
getBaselineForAgeFirstFallback(age) ==
    LET hits == {i \in 1..Len(AGE_BASELINES) :
                    /\ age >= AGE_BASELINES[i].minAgeMonths
                    /\ age <= AGE_BASELINES[i].maxAgeMonths}
    IN  IF hits = {} THEN AGE_BASELINES[1]
        ELSE AGE_BASELINES[CHOOSE i \in hits : \A j \in hits : i <= j]

\* AGE_BASELINES.find(...) || AGE_BASELINES[AGE_BASELINES.length - 1]
getBaselineForAge(age) ==
    LET hits == {i \in 1..Len(AGE_BASELINES) :
                    /\ age >= AGE_BASELINES[i].minAgeMonths
                    /\ age <= AGE_BASELINES[i].maxAgeMonths}
    IN  IF hits = {} THEN AGE_BASELINES[Len(AGE_BASELINES)]
        ELSE AGE_BASELINES[CHOOSE i \in hits : \A j \in hits : i <= j]

\* a date is [month |-> 12 * year + month index, day |-> day of the month]
calculateAgeInMonths(birthDate, today) ==
    LET totalMonths == today.month - birthDate.month
        days == today.day - birthDate.day
    IN  Max(0, IF days < 0 THEN totalMonths - 1 ELSE totalMonths)

----------------------------------------------------------------------------
(* utils/learner.ts *)

\* An EWMA accumulator holds twice the estimate as an exact decimal:
\* [int |-> integer part, frac |-> decimal digits after the point].
Exact(twice) == [int |-> twice, frac |-> <<>>]

\* digits * m, as <<carry into the integer part, digits>>
RECURSIVE MulDigits(_, _)
MulDigits(digits, m) ==
    IF digits = <<>> THEN <<0, <<>>>>
    ELSE LET rest == MulDigits(Tail(digits), m)
             v == Head(digits) * m + rest[1]
         IN  <<v \div 10, <<v % 10>> \o rest[2]>>

\* ALPHA * observed + (1 - ALPHA) * ewma with ALPHA = 0.3, on twice the values:
\* (3 * 2 * observed + 7 * acc) / 10
Fold(acc, observed) ==
    LET m == MulDigits(acc.frac, 7)
        whole == 7 * acc.int + m[1] + 6 * observed
    IN  [int |-> whole \div 10, frac |-> <<whole % 10>> \o m[2]]

\* Math.round of the estimate: floor(acc / 2 + 1/2)
Round(acc) == (acc.int + 1) \div 2

\* mutant: the deleted flag not looked at
IsValidIgnoresDeleted(s) == s.endISO # NoEnd

\* validSessions: .filter(s => !s.deleted && s.endISO)
IsValid(s) == ~s.deleted /\ s.endISO # NoEnd

\* .sort((a, b) => a.startISO.localeCompare(b.startISO)): a stable insertion
RECURSIVE InsertAsc(_, _)
InsertAsc(sorted, s) ==
    IF sorted = <<>> THEN <<s>>
    ELSE IF s.startISO < Head(sorted).startISO THEN <<s>> \o sorted
    ELSE <<Head(sorted)>> \o InsertAsc(Tail(sorted), s)

RECURSIVE SortAsc(_)
SortAsc(list) ==
    IF list = <<>> THEN <<>>
    ELSE InsertAsc(SortAsc(SubSeq(list, 1, Len(list) - 1)), list[Len(list)])

\* mutant: the comparison of isNap inverted
IsNapDurationInverted(duration) == duration > 240

\* const isNap = duration < 240
IsNapDuration(duration) == duration < 240

\* mutant: the first observation is blended like the others
SeedOrFoldAlwaysBlend(seed, acc, observed) == Fold(acc, observed)

\* the cold-start seed, or the EWMA blend, of one clamped observation
SeedOrFold(seed, acc, observed) ==
    IF seed THEN Exact(2 * observed) ELSE Fold(acc, observed)

\* mutant: the cap at 1.0 left out
ConfidenceUncapped(consistencyCount) == 30 + consistencyCount * 5

\* confidence = Math.min(0.3 + consistencyCount * 0.05, 1.0), in hundredths
Confidence(consistencyCount) == Min(30 + consistencyCount * 5, 100)

\* mutant: the duration folded in as observed
ClampDurationOff(duration) == duration

\* Math.max(10, Math.min(duration, 180))
ClampDuration(duration) == Max(10, Min(duration, 180))

\* one pass of validSessions.forEach((session, index) => ...)
LearnerStep(acc, valid, index, initial) ==
    LET session == valid[index]
        duration == Duration(session)
        isNap == IsNapDuration(duration)
        clampedDuration == ClampDuration(duration)
        seedNap == initial /\ ~acc.seededNap
        afterNap ==
            IF ~isNap THEN acc
            ELSE [acc EXCEPT
                    !.ewmaNap = SeedOrFold(seedNap, acc.ewmaNap,
                                           clampedDuration),
                    !.seededNap = acc.seededNap \/ seedNap,
                    !.consistencyCount = acc.consistencyCount + 1]
        wakeWindow == IF index > 1
                      THEN session.startISO - valid[index - 1].endISO
                      ELSE 0
        accepted == index > 1 /\ wakeWindow > 0 /\ wakeWindow < 720
        clampedWake == Max(30, Min(wakeWindow, 400))
        seedWake == initial /\ ~afterNap.seededWake
    IN  IF ~accepted THEN afterNap
        ELSE [afterNap EXCEPT
                !.ewmaWake = SeedOrFold(seedWake, afterNap.ewmaWake,
                                        clampedWake),
                !.seededWake = afterNap.seededWake \/ seedWake,
                !.consistencyCount = afterNap.consistencyCount + 1]

RECURSIVE LearnerLoop(_, _, _, _)
LearnerLoop(acc, valid, index, initial) ==
    IF index > Len(valid) THEN acc
    ELSE LearnerLoop(LearnerStep(acc, valid, index, initial), valid,
                     index + 1, initial)

\* mutant: the previous state dropped for the defaults
StateOrDefaultAlwaysDefault(current) == DEFAULT_LEARNER_STATE

\* const state = currentState || DEFAULT_LEARNER_STATE
StateOrDefault(current) ==
    IF current.null THEN DEFAULT_LEARNER_STATE ELSE current

updateLearnerState(current, list, age, today) ==
    LET state == StateOrDefault(current)
        validSessions == SortAsc(SelectSeq(list, IsValid))
        baseline == getBaselineForAge(age)
        start == [ewmaNap |-> Exact(baseline.napMin + baseline.napMax),
                  ewmaWake |-> Exact(baseline.wakeWindowMin
                                     + baseline.wakeWindowMax),
                  consistencyCount |-> 0,
                  seededNap |-> FALSE, seededWake |-> FALSE]
        final == LearnerLoop(start, validSessions, 1, current.null)
    IN  IF Len(validSessions) = 0 THEN state
        ELSE [null |-> FALSE,
              version |-> state.version,
              ewmaNapLengthMin |-> Round(final.ewmaNap),
              ewmaWakeWindowMin |-> Round(final.ewmaWake),
              lastUpdatedISO |-> today,
              confidence |-> Confidence(final.consistencyCount)]

----------------------------------------------------------------------------
(* utils/schedule.ts *)

\* null passed for a BabyProfile
NoProfile == [none |-> TRUE, birthDate |-> LoadDate]

Profile(birthDate) == [none |-> FALSE, birthDate |-> birthDate]

\* parseInt(format(t, 'H'))
HourOf(t) == (t \div 60) % 24

\* startOfDay(t)
StartOfDay(t) == t - (t % 1440)

\* const maxBlocks = 20
maxBlocks == 20

\* mutant: the hour from 22:00 on is not a bedtime hour
IsBedtimeHourBefore22(hour) ==
    (hour >= 19 /\ hour < 22) \/ (hour >= 0 /\ hour < 4)

\* (hour >= typicalBedtimeHour && hour <= 22) || (hour >= 0 && hour < 4)
IsBedtimeHour(hour) == (hour >= 19 /\ hour <= 22) \/ (hour >= 0 /\ hour < 4)

\* mutant: the floor of 0.1 left out
BlockConfidenceNoFloor(confidence, isBedtime) ==
    Min(100, confidence + (IF isBedtime THEN 0 - 10 ELSE 0))

\* Math.max(0.1, Math.min(1.0, confidence + confidenceAdjustment))
BlockConfidence(confidence, isBedtime) ==
    Max(10, Min(100, confidence + (IF isBedtime THEN 0 - 10 ELSE 0)))

\* the rationale string, as the values it is built from
Rationale(learner, baseline, ageInMonths, isBedtime) ==
    IF isBedtime
    THEN [text |-> "Bedtime based on wake window",
          minutes |-> learner.ewmaWakeWindowMin, age |-> 0]
    ELSE LET learnedDiff == learner.ewmaWakeWindowMin
                            - baseline.wakeWindowTypical
         IN  [text |-> IF Abs(learnedDiff) < 15 THEN "Nap aligned with"
                       ELSE IF learnedDiff > 0 THEN "Nap adjusted above"
                       ELSE "Nap adjusted below",
              minutes |-> baseline.wakeWindowTypical, age |-> ageInMonths]

\* mutant: the wind-down placed after the start of the sleep block
WindDownStartAfter(nextSleepStart, windDownDuration) ==
    nextSleepStart + windDownDuration

\* addMinutes(nextSleepStart, -windDownDuration)
WindDownStart(nextSleepStart, windDownDuration) ==
    nextSleepStart - windDownDuration

\* mutant: the last session ignored
SimulationStartFromNow(learner, last, current) == current

\* the instant the simulation starts from
SimulationStart(learner, last, current) ==
    IF last = NoSession THEN current
    ELSE IF last.endISO = NoEnd
         THEN Max(last.startISO + learner.ewmaNapLengthMin, current)
         ELSE Max(last.endISO, current)

\* mutant: two days from now, not from the start of today
EndOfTomorrowFromNow(current) == current + 2 * 1440

\* const endOfTomorrow = addDays(startOfDay(current), 2)
EndOfTomorrow(current) == StartOfDay(current) + 2 * 1440

\* mutant: the morning after a bedtime pulled back by 20 minutes
AdvanceTo20(nextSleepEnd, isBedtime) ==
    IF isBedtime THEN nextSleepEnd - 20 ELSE nextSleepEnd

\* simulationTime = nextSleepEnd; if (isBedtime) addMinutes(simulationTime, -15)
AdvanceTo(nextSleepEnd, isBedtime) ==
    IF isBedtime THEN nextSleepEnd - 15 ELSE nextSleepEnd

\* one iteration of the while loop; st = [time, blockCount, blocks]
ScheduleStep(st, learner, baseline, ageInMonths, current, firstId) ==
    LET endOfTomorrow == EndOfTomorrow(current)
        nextSleepStart == st.time + learner.ewmaWakeWindowMin
        isBedtime == IsBedtimeHour(HourOf(nextSleepStart))
        kind == IF isBedtime THEN "bedtime" ELSE "nap"
        sleepDuration ==
            IF isBedtime THEN 660
            ELSE Max(baseline.napMin,
                     Min(baseline.napMax, learner.ewmaNapLengthMin))
        blockConfidence == BlockConfidence(learner.confidence, isBedtime)
        windDownDuration == IF isBedtime THEN 20 ELSE 15
        windDownStart == WindDownStart(nextSleepStart, windDownDuration)
        nextSleepEnd == nextSleepStart + sleepDuration
        withWindDown ==
            IF current < nextSleepStart /\ windDownStart < endOfTomorrow
            THEN Append(st.blocks,
                   [id |-> firstId + Len(st.blocks) + 1,
                    kind |-> "windDown",
                    startISO |-> windDownStart,
                    endISO |-> nextSleepStart,
                    confidence |-> blockConfidence,
                    rationale |-> [text |-> "wind-down before " \o kind,
                                   minutes |-> windDownDuration, age |-> 0]])
            ELSE st.blocks
        withSleep ==
            IF current < nextSleepEnd /\ nextSleepStart < endOfTomorrow
            THEN Append(withWindDown,
                   [id |-> firstId + Len(withWindDown) + 1,
                    kind |-> kind,
                    startISO |-> nextSleepStart,
                    endISO |-> nextSleepEnd,
                    confidence |-> blockConfidence,
                    rationale |-> Rationale(learner, baseline, ageInMonths,
                                            isBedtime)])
            ELSE withWindDown
    IN  [time |-> AdvanceTo(nextSleepEnd, isBedtime),
         blockCount |-> st.blockCount + 1,
         blocks |-> withSleep]

\* mutant: one iteration more than maxBlocks
LoopGoesOnOnceMore(st, current) ==
    st.time < EndOfTomorrow(current) /\ st.blockCount <= maxBlocks

\* isBefore(simulationTime, endOfTomorrow) && blockCount < maxBlocks
LoopGoesOn(st, current) ==
    st.time < EndOfTomorrow(current) /\ st.blockCount < maxBlocks

\* the while loop, returning simulationTime, blockCount and schedule
RECURSIVE ScheduleLoop(_, _, _, _, _, _)
ScheduleLoop(st, learner, baseline, ageInMonths, current, firstId) ==
    IF LoopGoesOn(st, current)
    THEN ScheduleLoop(ScheduleStep(st, learner, baseline, ageInMonths,
                                   current, firstId),
                      learner, baseline, ageInMonths, current, firstId)
    ELSE st

\* today is the device date read by calculateAgeInMonths; the identifiers of
\* the blocks are the next ones uuidv4() hands out after firstId
Simulation(learner, last, profile, current, today, firstId) ==
    LET ageInMonths == IF profile.none THEN 6
                       ELSE calculateAgeInMonths(profile.birthDate, today)
        baseline == getBaselineForAge(ageInMonths)
        start == [time |-> SimulationStart(learner, last, current),
                  blockCount |-> 0, blocks |-> <<>>]
    IN  ScheduleLoop(start, learner, baseline, ageInMonths, current, firstId)

generateSchedule(learner, last, profile, current, today, firstId) ==
    Simulation(learner, last, profile, current, today, firstId).blocks

\* mutant: the size of the adjustment taken without Math.abs
WhatIfConfidenceSigned(confidence, adj) == Max(10, confidence - adj)

\* Math.max(0.1, learnerState.confidence - Math.abs(adjustment) / 100)
WhatIfConfidence(confidence, adj) == Max(10, confidence - Abs(adj))

\* const adjustedState = {...learnerState, ewmaWakeWindowMin, confidence}
AdjustedState(learner, adj) ==
    [learner EXCEPT !.ewmaWakeWindowMin = learner.ewmaWakeWindowMin + adj,
                    !.confidence = WhatIfConfidence(learner.confidence, adj)]

generateWhatIfSchedule(learner, last, profile, adj, current, today, firstId) ==
    generateSchedule(AdjustedState(learner, adj), last, profile, current,
                     today, firstId)

----------------------------------------------------------------------------
(* utils/coach.ts *)

\* COACH_RULES
SHORT_NAP_THRESHOLD == 30

SHORT_NAP_STREAK == 3

BEDTIME_VARIANCE_THRESHOLD == 30

MIN_SESSIONS_FOR_CONFIDENCE == 5

\* HIGH_CONFIDENCE_THRESHOLD: 0.75, in hundredths
HIGH_CONFIDENCE_THRESHOLD == 75

\* .sort((a, b) => b.startISO.localeCompare(a.startISO)): newest first, stable
RECURSIVE InsertDesc(_, _)
InsertDesc(sorted, s) ==
    IF sorted = <<>> THEN <<s>>
    ELSE IF s.startISO > Head(sorted).startISO THEN <<s>> \o sorted
    ELSE <<Head(sorted)>> \o InsertDesc(Tail(sorted), s)

RECURSIVE SortDesc(_)
SortDesc(list) ==
    IF list = <<>> THEN <<>>
    ELSE InsertDesc(SortDesc(SubSeq(list, 1, Len(list) - 1)), list[Len(list)])

\* const isNap = (session) => duration < 240
IsNapSession(s) == Duration(s) < 240

IsNightSession(s) == ~IsNapSession(s)

\* mutant: a nap of exactly 30 minutes counts as short
IsShortNapInclusive(s) == Duration(s) <= SHORT_NAP_THRESHOLD

IsShortNap(s) == Duration(s) < SHORT_NAP_THRESHOLD

\* getBedtimeSessions' filter: night sleep starting from 18:00 to 03:59
IsBedtimeSession(s) ==
    /\ ~IsNapSession(s)
    /\ (HourOf(s.startISO) >= 18 \/ HourOf(s.startISO) <= 3)

RECURSIVE SumSeq(_)
SumSeq(q) == IF q = <<>> THEN 0 ELSE Head(q) + SumSeq(Tail(q))

Ids(q) == [i \in 1..Len(q) |-> q[i].id]

\* Math.round(a / b) for a >= 0 and b > 0
RoundDiv(a, b) == (2 * a + b) \div (2 * b)

\* Math.round(Math.sqrt(a / b)) for a >= 0 and b > 0
RoundSqrt(a, b) ==
    CHOOSE r \in 0..240 :
        /\ (r = 0 \/ (2 * r - 1) * (2 * r - 1) * b <= 4 * a)
        /\ 4 * a < (2 * r + 1) * (2 * r + 1) * b

Tip(id, suffix, type, related, message) ==
    [id |-> id, suffix |-> suffix, type |-> type,
     relatedSessionIds |-> related, message |-> message]

\* 1. Short Nap Streak
ShortNapTips(valid) ==
    LET recentNaps == Take(SelectSeq(valid, IsNapSession), SHORT_NAP_STREAK)
        short == SelectSeq(recentNaps, IsShortNap)
    IN  IF Len(short) >= 2 /\ Len(recentNaps) >= 2
        THEN << Tip("short-nap-streak", 0, "warning", Ids(short),
                    <<Len(short), Len(recentNaps), SHORT_NAP_THRESHOLD>>) >>
        ELSE <<>>

\* mutant: a wake window of exactly 1.2 times the maximum counts as long
IsLongWakeInclusive(wakeWindow, baseline) ==
    5 * wakeWindow >= 6 * baseline.wakeWindowMax

\* wakeWindow > baseline.wakeWindowMax * LONG_WAKE_THRESHOLD_RATIO (1.2); the
\* product is exact in floating point for every bracket
IsLongWake(wakeWindow, baseline) ==
    5 * wakeWindow > 6 * baseline.wakeWindowMax

\* 2. Overtired / Long Wake Window (wakeWindow > wakeWindowMax * 1.2)
OvertiredTips(valid, baseline) ==
    IF Len(valid) < 2 THEN <<>>
    ELSE LET lastSleep == valid[1]
             prevSleep == valid[2]
             wakeWindow == lastSleep.startISO - prevSleep.endISO
         IN  IF IsLongWake(wakeWindow, baseline)
             THEN << Tip("overtired", 0, "warning",
                         <<lastSleep.id, prevSleep.id>>,
                         <<RoundDiv(wakeWindow, 6),
                           RoundDiv(baseline.wakeWindowMax, 6), 0>>) >>
             ELSE <<>>

\* 3. Bedtime Drift Detection
BedtimeDriftTips(valid) ==
    LET bedtimeSessions == Take(SelectSeq(valid, IsBedtimeSession), 7)
        n == Len(bedtimeSessions)
        bedtimeTimes == [i \in 1..n |-> bedtimeSessions[i].startISO % 1440]
        total == SumSeq(bedtimeTimes)
        latestBedtime == bedtimeTimes[1]
        \* drift and average, both times n
        driftN == Abs(n * latestBedtime - total)
    IN  IF n >= 3 /\ driftN > BEDTIME_VARIANCE_THRESHOLD * n
        THEN << Tip("bedtime-drift", 0, "info", <<bedtimeSessions[1].id>>,
                    <<RoundDiv(driftN, n),
                      IF n * latestBedtime > total THEN 1 ELSE 0,
                      total \div n>>) >>
        ELSE <<>>

\* mutant: a session sharing the night's start or end counts as inside
SameNightSessionsInclusive(valid, session) ==
    LET Inside(other) ==
            /\ other.id # session.id
            /\ other.startISO >= session.startISO
            /\ other.endISO <= session.endISO
    IN  SelectSeq(valid, Inside)

\* the sessions strictly inside a night session
SameNightSessions(valid, session) ==
    LET Inside(other) ==
            /\ other.id # session.id
            /\ other.startISO > session.startISO
            /\ other.endISO < session.endISO
    IN  SelectSeq(valid, Inside)

\* 4. Split Night Detection: the for loop over nightSessions, with its break
RECURSIVE SplitNightLoop(_, _)
SplitNightLoop(valid, nightSessions) ==
    IF nightSessions = <<>> THEN <<>>
    ELSE LET session == Head(nightSessions)
             sameNightSessions == SameNightSessions(valid, session)
         IN  IF Len(sameNightSessions) > 0
             THEN << Tip("split-night", session.id, "warning",
                         <<session.id>> \o Ids(sameNightSessions),
                         <<0, 0, 0>>) >>
             ELSE SplitNightLoop(valid, Tail(nightSessions))

SplitNightTips(valid) ==
    SplitNightLoop(valid, Take(SelectSeq(valid, IsNightSession), 3))

\* mutant: the threshold itself counts as below
BelowHighConfidenceInclusive(confidence) ==
    confidence <= HIGH_CONFIDENCE_THRESHOLD

\* learnerState.confidence < COACH_RULES.HIGH_CONFIDENCE_THRESHOLD
BelowHighConfidence(confidence) == confidence < HIGH_CONFIDENCE_THRESHOLD

\* mutant: a spread of exactly 30 minutes counts
SpreadExceedsInclusive(varianceNN, n) == varianceNN >= 30 * 30 * n * n

\* stdDev > 30, for the variance times n * n
SpreadExceeds(varianceNN, n) == varianceNN > 30 * 30 * n * n

\* 5. Inconsistency Detection
InconsistencyTips(valid, learner) ==
    LET naps == SelectSeq(valid, IsNapSession)
        napDurations == [i \in 1..Min(10, Len(naps)) |-> Duration(naps[i])]
        n == Len(napDurations)
        total == SumSeq(napDurations)
        squares == SumSeq([i \in 1..n |-> napDurations[i] * napDurations[i]])
        \* variance times n * n
        varianceNN == n * squares - total * total
    IN  IF /\ BelowHighConfidence(learner.confidence)
           /\ Len(valid) >= MIN_SESSIONS_FOR_CONFIDENCE
           /\ n >= 5
           /\ SpreadExceeds(varianceNN, n)
        THEN << Tip("inconsistent-schedule", 0, "info", Ids(Take(naps, 5)),
                    <<RoundDiv(total, n), RoundSqrt(varianceNN, n * n), 0>>) >>
        ELSE <<>>

\* 6. High Confidence Success Message
HighConfidenceTips(valid, learner) ==
    IF /\ learner.confidence >= HIGH_CONFIDENCE_THRESHOLD
       /\ Len(valid) >= MIN_SESSIONS_FOR_CONFIDENCE
    THEN << Tip("high-confidence", 0, "success", <<>>,
                <<learner.confidence, 0, 0>>) >>
    ELSE <<>>

\* mutant: the guard of rule 7 off by one
TooFewSessionsInclusive(count) == count <= MIN_SESSIONS_FOR_CONFIDENCE

\* validSessions.length < COACH_RULES.MIN_SESSIONS_FOR_CONFIDENCE
TooFewSessions(count) == count < MIN_SESSIONS_FOR_CONFIDENCE

\* mutant: one session more than needed
SessionsNeededOneMore(count) == MIN_SESSIONS_FOR_CONFIDENCE - count + 1

\* ${COACH_RULES.MIN_SESSIONS_FOR_CONFIDENCE - validSessions.length}
SessionsNeeded(count) == MIN_SESSIONS_FOR_CONFIDENCE - count

\* 7. Insufficient Data
InsufficientDataTips(valid) ==
    IF TooFewSessions(Len(valid))
    THEN << Tip("insufficient-data", 0, "info", <<>>,
                <<SessionsNeeded(Len(valid)), 0, 0>>) >>
    ELSE <<>>

\* today is the device date read by calculateAgeInMonths
generateCoachTips(list, learner, profile, today) ==
    LET validSessions == SortDesc(SelectSeq(list, IsValid))
        ageInMonths == IF profile.none THEN 6
                       ELSE calculateAgeInMonths(profile.birthDate, today)
        baseline == getBaselineForAge(ageInMonths)
    IN  IF Len(validSessions) = 0 THEN <<>>
        ELSE ShortNapTips(validSessions)
             \o OvertiredTips(validSessions, baseline)
             \o BedtimeDriftTips(validSessions)
             \o SplitNightTips(validSessions)
             \o InconsistencyTips(validSessions, learner)
             \o HighConfidenceTips(validSessions, learner)
             \o InsufficientDataTips(validSessions)

----------------------------------------------------------------------------
(* store/useStore.ts, services/notifications.ts, services/database.ts      *)
(*                                                                         *)
(* A store call (addSession, updateSession, deleteSession) runs from one   *)
(* await to the next without interruption; between two awaits any other    *)
(* call may run.  calls[c].pc names the await call c is suspended at.      *)

\* the state useStore is created with
InitialStore ==
    [sessions |-> <<>>, learnerState |-> DEFAULT_LEARNER_STATE,
     schedule |-> <<>>, coachTips |-> <<>>]

\* the locals of a call that has not been made yet
IdleCall ==
    [pc |-> "idle", op |-> "none", arg |-> NoSession,
     newSessions |-> <<>>, profileSessions |-> <<>>,
     newLearnerState |-> NullState, schedule |-> <<>>, coachTips |-> <<>>,
     logs |-> <<>>, next |-> 0]

\* activeProfileId: null
NoId == 0

\* a BabyProfile of the store: its id and its birthDateISO
StoredProfile(i, birthDate) == [id |-> i, birthDate |-> birthDate]

\* profile: null
NoStoredProfile == StoredProfile(NoId, LoadDate)

IdleStore ==
    /\ store = InitialStore
    /\ calls = [c \in 1..MaxCalls |-> IdleCall]
    /\ notificationLog = {}
    /\ notifyOrder = <<>>
    /\ profileState = [profiles |-> <<>>, activeProfileId |-> NoId,
                       profile |-> NoStoredProfile]
    /\ disk = [profiles |-> <<>>, asyncProfiles |-> <<>>,
               activeProfileId |-> NoId, sessions |-> <<>>,
               learnerState |-> NullState]

IsNotDeleted(s) == ~s.deleted

HasEnd(s) == s.endISO # NoEnd

\* sessions.filter(s => !s.deleted), the filter for activeProfileId = null
ProfileSessions(list) == SelectSeq(list, IsNotDeleted)

\* the last of profileSessions.filter(s => s.endISO) sorted by endISO: the
\* latest end, and of several sessions with that end the last in the list
LastSession(profileSessions) ==
    LET ended == SelectSeq(profileSessions, HasEnd)
    IN  IF ended = <<>> THEN NoSession
        ELSE ended[CHOOSE i \in 1..Len(ended) :
                     \A j \in 1..Len(ended) :
                        \/ ended[j].endISO < ended[i].endISO
                        \/ ended[j].endISO = ended[i].endISO /\ j <= i]

\* a row of notification_log
LogEntry(i, blockId, scheduledFor, status) ==
    [id |-> i, scheduleBlockId |-> blockId, scheduledForISO |-> scheduledFor,
     status |-> status]

IsScheduled(row) == row.status = "scheduled"

\* ORDER BY scheduledForISO DESC of a set of rows (rows of one instant in
\* the order of their identifiers)
RECURSIVE LogsDesc(_)
LogsDesc(rows) ==
    IF rows = {} THEN <<>>
    ELSE LET top == CHOOSE r \in rows :
                      \A q \in rows :
                         \/ q.scheduledForISO < r.scheduledForISO
                         \/ /\ q.scheduledForISO = r.scheduledForISO
                            /\ q.id >= r.id
         IN  <<top>> \o LogsDesc(rows \ {top})

\* db.getNotificationLogs(): SELECT ... ORDER BY scheduledForISO DESC LIMIT 100
getNotificationLogs(rows) == Take(LogsDesc(rows), 100)

\* db.logNotification(row): INSERT OR REPLACE INTO notification_log
logNotification(rows, row) == {r \in rows : r.id # row.id} \cup {row}

\* uuidv4() in the store calls: the identifiers a call draws are new ones;
\* call c draws those of its blocks from 1000 * c and those of its log rows
\* from 1000 * c + 500
FirstBlockId(c) == 1000 * c

LogId(c, next) == 1000 * c + 500 + next

----------------------------------------------------------------------------
(* Inputs of the learner *)

\* <<start, end, deleted>> of the sessions a free-form list is drawn from
SessionPool ==
    { <<0, 60, FALSE>>, <<60, 120, FALSE>>, <<180, 240, FALSE>>,
      <<360, 420, FALSE>>, <<60, 460, FALSE>>, <<70, 75, FALSE>>,
      <<800, 1000, FALSE>>, <<180, 240, TRUE>>, <<300, NoEnd, FALSE>> }

\* the sessions of a list get their position as identifier
SessionLists ==
    UNION { { [i \in 1..n |-> Session(i, f[i][1], f[i][2], f[i][3])] :
              f \in [1..n -> SessionPool] } : n \in 0..MaxLen }

\* <<gap before the session, duration>> of the links of a chain
ChainLinks == { <<60, 60>>, <<60, 300>> }

RECURSIVE ChainFrom(_, _, _)
ChainFrom(f, i, start) ==
    IF i > Len(f) THEN <<>>
    ELSE LET s == start + f[i][1]
         IN  <<Session(i, s, s + f[i][2], FALSE)>>
             \o ChainFrom(f, i + 1, s + f[i][2])

\* sessions logged one after the other, oldest first
ChainLists ==
    UNION { { ChainFrom(f, 1, 0) : f \in [1..n -> ChainLinks] } :
            n \in 5..MaxChain }

\* <<start within the day, duration>> of a day's naps: none, two short ones,
\* or a 60 and a 120 minute one
DayNaps ==
    { <<>>, << <<540, 20>>, <<720, 25>> >>, << <<540, 60>>, <<720, 120>> >> }

\* a day's night sleep: none, from 20:00, or from 21:30 with a session logged
\* inside it
DayNights ==
    { <<>>, << <<1200, 300>> >>, << <<1290, 300>>, <<1350, 20>> >> }

DayPlans == { n \o g : n \in DayNaps, g \in DayNights }

\* the sessions of day d, the list holding `before` sessions already
DaySessions(plan, d, before) ==
    [i \in 1..Len(plan) |->
        Session(before + i, 1440 * (d - 1) + plan[i][1],
                1440 * (d - 1) + plan[i][1] + plan[i][2], FALSE)]

RECURSIVE DaysFrom(_, _, _)
DaysFrom(f, d, before) ==
    IF d > Len(f) THEN <<>>
    ELSE DaySessions(f[d], d, before)
         \o DaysFrom(f, d + 1, before + Len(f[d]))

\* the log of MaxDays consecutive days, oldest first
DayLists == { DaysFrom(f, 1, 0) : f \in [1..MaxDays -> DayPlans] }

\* the two oldest naps of a long log
OldNaps == { <<30, 60>>, <<30, 230>> }

\* twelve naps in a row, the ten most recent ones of 60 minutes
LongLogs ==
    { ChainFrom(<<a, b>> \o [i \in 1..10 |-> <<30, 60>>], 1, 0) :
        a \in OldNaps, b \in OldNaps }

\* four nights, the oldest one from 20:00 or from 21:30 with a session
\* logged inside it
NightLogs ==
    { DaysFrom(<<first>> \o [i \in 1..3 |-> << <<1200, 300>> >>], 1, 0) :
        first \in DayNights \ {<<>>} }

\* three naps in a row, each just under or exactly 30 minutes long
ShortNapLogs ==
    { ChainFrom(f, 1, 0) : f \in [1..3 -> { <<60, 29>>, <<60, 30>> }] }

\* two naps, the wake window between them at or just above 1.2 times the
\* maximum of an age bracket
WakeLogs ==
    { ChainFrom(<< <<0, 60>>, <<gap, 60>> >>, 1, 0) :
        gap \in {108, 109, 180, 181, 432, 433} }

\* the lists the coach is called on
CoachLists ==
    SessionLists \cup ChainLists \cup DayLists \cup LongLogs \cup NightLogs
        \cup ShortNapLogs \cup WakeLogs

\* none, the defaults, and a state computed a month before LoadDate
PreviousStates ==
    { NullState, DEFAULT_LEARNER_STATE,
      [null |-> FALSE, version |-> 2, ewmaNapLengthMin |-> 45,
       ewmaWakeWindowMin |-> 150,
       lastUpdatedISO |-> [month |-> LoadDate.month - 1, day |-> 3],
       confidence |-> 80] }

Ages == {2, 6, 40}

----------------------------------------------------------------------------
(* The learner called on drawn inputs *)

IdleSchedule ==
    /\ lastSession = NoSession
    /\ now = 0
    /\ adjustment = 0
    /\ uuid = 0
    /\ schedule = <<>>
    /\ schedule2 = <<>>
    /\ whatIf = <<>>
    /\ iterations = 0

IdleCoach ==
    /\ coachTips = <<>>
    /\ coachTips2 = <<>>
    /\ extendedTips = <<>>
    /\ ageBaseline = NoBaseline

InitLearner ==
    /\ IdleStore
    /\ sessions \in SessionLists \cup ChainLists
    /\ currentState \in PreviousStates
    /\ ageMonths \in Ages
    /\ learnerState = NullState
    /\ rerun = NullState
    /\ extended = NullState
    /\ added = NoSession
    /\ activeProfile = NoProfile
    /\ wallClock = LoadDate
    /\ done = <<>>
    /\ IdleSchedule
    /\ IdleCoach

\* updateLearnerState(currentState, sessions, ageMonths)
Update ==
    /\ done = <<>>
    /\ learnerState' =
         updateLearnerState(currentState, sessions, ageMonths, wallClock)
    /\ done' = <<"update">>
    /\ UNCHANGED <<sessions, currentState, ageMonths, rerun, extended, added,
                   wallClock, scheduleVars, coachVars>>
    /\ UNCHANGED storeVars

\* updateLearnerState(previous result, sessions, ageMonths), as every refresh
\* of the store does
Rerun ==
    /\ done = <<"update">>
    /\ rerun' = updateLearnerState(learnerState, sessions, ageMonths, wallClock)
    /\ done' = Append(done, "rerun")
    /\ UNCHANGED <<sessions, currentState, ageMonths, learnerState, extended,
                   added, wallClock, scheduleVars, coachVars>>
    /\ UNCHANGED storeVars

\* updateLearnerState(currentState, [session, ...sessions], ageMonths), or
\* with the session at the end of the list
UpdateExtended ==
    /\ done = <<"update">>
    /\ \E p \in SessionPool, atFront \in BOOLEAN :
         LET s == Session(Len(sessions) + 1, p[1], p[2], p[3])
             list == IF atFront THEN <<s>> \o sessions
                     ELSE Append(sessions, s)
         IN  /\ added' = s
             /\ extended' = updateLearnerState(currentState, list, ageMonths,
                                               wallClock)
    /\ done' = Append(done, "extended")
    /\ UNCHANGED <<sessions, currentState, ageMonths, learnerState, rerun,
                   wallClock, scheduleVars, coachVars>>
    /\ UNCHANGED storeVars

NextLearner == Update \/ Rerun \/ UpdateExtended

SpecLearner == InitLearner /\ [][NextLearner]_vars

----------------------------------------------------------------------------
(* The learner and the coach called on one session list, as                *)
(* refreshDerivedState of the store calls them                             *)

\* without a profile the store passes the age of 6 months
InitDerived == InitLearner /\ ageMonths = 6

\* generateCoachTips(sessions, learnerState, profile) on the result of update,
\* as the refresh of the store calls it
EvaluateLearned ==
    /\ done = <<"update", "extended">>
    /\ coachTips' = generateCoachTips(sessions, learnerState, activeProfile,
                                      wallClock)
    /\ done' = Append(done, "evaluateLearned")
    /\ UNCHANGED <<learnerVars, scheduleVars, wallClock, coachTips2,
                   extendedTips, ageBaseline>>
    /\ UNCHANGED storeVars

\* the same for the session list with `added` in front, as addSession of the
\* store builds it, and the state learnt from it
EvaluateExtended ==
    /\ done = <<"update", "extended", "evaluateLearned">>
    /\ extendedTips' = generateCoachTips(<<added>> \o sessions, extended,
                                         activeProfile, wallClock)
    /\ done' = Append(done, "evaluateExtended")
    /\ UNCHANGED <<learnerVars, scheduleVars, wallClock, coachTips,
                   coachTips2, ageBaseline>>
    /\ UNCHANGED storeVars

NextDerived ==
    Update \/ UpdateExtended \/ EvaluateLearned \/ EvaluateExtended

SpecDerived == InitDerived /\ [][NextDerived]_vars

----------------------------------------------------------------------------
(* The simulator called on drawn inputs *)

\* learner states handed to the simulator: estimates at and between the
\* clamps of the learner, confidence from the floor to the cap
LearnerInputs ==
    { [null |-> FALSE, version |-> 1, ewmaNapLengthMin |-> n,
       ewmaWakeWindowMin |-> w, lastUpdatedISO |-> LoadDate,
       confidence |-> c] :
      n \in {30, 60, 200}, w \in {30, 90, 120, 300},
      c \in {10, 15, 50, 80, 100} }

\* instants of the call: 00:00, 06:00, 11:00, 17:00 and 22:00 of one day
Nows == {1440, 1800, 2100, 2460, 2760}

\* none, ended an hour ago or just now, ending in the future, still open
LastSessions(current) ==
    { NoSession,
      Session(1, current - 120, current - 60, FALSE),
      Session(1, current - 60, current, FALSE),
      Session(1, current - 30, current + 30, FALSE),
      Session(1, current - 30, NoEnd, FALSE) }

\* born 3 months and 5 days, or 19 months and 25 days, before LoadDate
Profiles ==
    { NoProfile,
      Profile([month |-> LoadDate.month - 3, day |-> 10]),
      Profile([month |-> LoadDate.month - 20, day |-> 20]) }

\* the documented range is -30..+30; the function accepts any number
Adjustments == {0 - 130, 0 - 70, 0 - 30, 0 - 5, 5, 30}

\* the device date a month after LoadDate
LaterDate == [month |-> LoadDate.month + 1, day |-> LoadDate.day]

IdleLearner ==
    /\ sessions = <<>>
    /\ currentState = NullState
    /\ ageMonths = 6
    /\ rerun = NullState
    /\ extended = NullState
    /\ added = NoSession

InitSchedule ==
    /\ IdleStore
    /\ learnerState \in LearnerInputs
    /\ now \in Nows
    /\ lastSession \in LastSessions(now)
    /\ activeProfile \in Profiles
    /\ adjustment = 0
    /\ wallClock = LoadDate
    /\ uuid = 0
    /\ schedule = <<>>
    /\ schedule2 = <<>>
    /\ whatIf = <<>>
    /\ iterations = 0
    /\ done = <<>>
    /\ IdleLearner
    /\ IdleCoach

\* generateSchedule(learnerState, lastSession, activeProfile, now)
Generate ==
    /\ done = <<>>
    /\ schedule' = generateSchedule(learnerState, lastSession, activeProfile,
                                    now, wallClock, uuid)
    /\ uuid' = uuid + Len(schedule')
    /\ iterations' = Simulation(learnerState, lastSession, activeProfile, now,
                                wallClock, uuid).blockCount
    /\ done' = <<"generate">>
    /\ UNCHANGED <<learnerVars, lastSession, activeProfile, now, adjustment,
                   wallClock, schedule2, whatIf, coachVars>>
    /\ UNCHANGED storeVars

\* the same call once more
GenerateAgain ==
    /\ done = <<"generate">>
    /\ schedule2' = generateSchedule(learnerState, lastSession, activeProfile,
                                     now, wallClock, uuid)
    /\ uuid' = uuid + Len(schedule2')
    /\ iterations' = Simulation(learnerState, lastSession, activeProfile, now,
                                wallClock, uuid).blockCount
    /\ done' = Append(done, "generateAgain")
    /\ UNCHANGED <<learnerVars, lastSession, activeProfile, now, adjustment,
                   wallClock, schedule, whatIf, coachVars>>
    /\ UNCHANGED storeVars

\* generateWhatIfSchedule(learnerState, lastSession, activeProfile, adj, now)
GenerateWhatIf ==
    /\ done = <<"generate">>
    /\ \E adj \in Adjustments :
         /\ adjustment' = adj
         /\ whatIf' = generateWhatIfSchedule(learnerState, lastSession,
                                             activeProfile, adj, now,
                                             wallClock, uuid)
         /\ iterations' = Simulation(AdjustedState(learnerState, adj),
                                     lastSession, activeProfile, now,
                                     wallClock, uuid).blockCount
    /\ uuid' = uuid + Len(whatIf')
    /\ done' = Append(done, "whatIf")
    /\ UNCHANGED <<learnerVars, lastSession, activeProfile, now, wallClock,
                   schedule, schedule2, coachVars>>
    /\ UNCHANGED storeVars

\* time passes on the device between two calls
Tick ==
    /\ Len(done) = 1
    /\ wallClock = LoadDate
    /\ wallClock' = LaterDate
    /\ UNCHANGED <<learnerVars, scheduleVars, coachVars, done>>
    /\ UNCHANGED storeVars

NextSchedule == Generate \/ GenerateAgain \/ GenerateWhatIf \/ Tick

SpecSchedule == InitSchedule /\ [][NextSchedule]_vars

----------------------------------------------------------------------------
(* The coach called on drawn inputs *)

\* learner states handed to the coach: below, at and above the threshold
CoachInputs ==
    { [null |-> FALSE, version |-> 1, ewmaNapLengthMin |-> 60,
       ewmaWakeWindowMin |-> 120, lastUpdatedISO |-> LoadDate,
       confidence |-> c] : c \in {30, 70, 75, 100} }

InitCoach ==
    /\ IdleStore
    /\ sessions \in CoachLists
    /\ learnerState \in CoachInputs
    /\ activeProfile \in Profiles
    /\ wallClock = LoadDate
    /\ IdleCoach
    /\ done = <<>>
    /\ currentState = NullState
    /\ ageMonths = 6
    /\ rerun = NullState
    /\ extended = NullState
    /\ added = NoSession
    /\ IdleSchedule

\* generateCoachTips(sessions, learnerState, activeProfile)
Evaluate ==
    /\ done = <<>>
    /\ coachTips' = generateCoachTips(sessions, learnerState, activeProfile,
                                      wallClock)
    /\ done' = <<"evaluate">>
    /\ UNCHANGED <<learnerVars, scheduleVars, wallClock, coachTips2,
                   extendedTips, ageBaseline>>
    /\ UNCHANGED storeVars

\* the same call once more
EvaluateAgain ==
    /\ done = <<"evaluate">>
    /\ coachTips2' = generateCoachTips(sessions, learnerState, activeProfile,
                                       wallClock)
    /\ done' = Append(done, "evaluateAgain")
    /\ UNCHANGED <<learnerVars, scheduleVars, wallClock, coachTips,
                   extendedTips, ageBaseline>>
    /\ UNCHANGED storeVars

NextCoach == Evaluate \/ EvaluateAgain \/ Tick

SpecCoach == InitCoach /\ [][NextCoach]_vars

----------------------------------------------------------------------------
(* The baseline looked up for the age of a profile *)

\* born 0..MaxAge months before LoadDate, before or after its day of the month
BirthDates ==
    { [month |-> LoadDate.month - m, day |-> d] :
      m \in 0..MaxAge, d \in {10, 20} }

InitBaseline ==
    /\ IdleStore
    /\ activeProfile \in { Profile(b) : b \in BirthDates }
    /\ learnerState = NullState
    /\ wallClock = LoadDate
    /\ done = <<>>
    /\ IdleLearner
    /\ IdleSchedule
    /\ IdleCoach

\* calculateAgeInMonths(activeProfile.birthDateISO)
AgeOf ==
    /\ done = <<>>
    /\ ageMonths' = calculateAgeInMonths(activeProfile.birthDate, wallClock)
    /\ done' = <<"age">>
    /\ UNCHANGED <<sessions, currentState, learnerState, rerun, extended,
                   added, scheduleVars, wallClock, coachVars>>
    /\ UNCHANGED storeVars

\* getBaselineForAge(ageMonths)
Lookup ==
    /\ done = <<"age">>
    /\ ageBaseline' = getBaselineForAge(ageMonths)
    /\ done' = Append(done, "lookup")
    /\ UNCHANGED <<learnerVars, scheduleVars, wallClock, coachTips,
                   coachTips2, extendedTips>>
    /\ UNCHANGED storeVars

NextBaseline == AgeOf \/ Lookup

SpecBaseline == InitBaseline /\ [][NextBaseline]_vars

----------------------------------------------------------------------------
(* The store under overlapping addSession, updateSession and deleteSession *)
(* calls.  The device clock stands still while the calls run.              *)

\* new Date() during the calls: 17:00 of the day that starts at minute 1440
StoreNows == {2460}

\* <<start, end>> of the sessions the user logs: a nap of one hour in the
\* morning, a nap of three hours after noon
LoggedTimes == { <<1860, 1920>>, <<2100, 2280>> }

\* what the store calls leave alone
storeFrame ==
    <<learnerVars, coachVars, lastSession, activeProfile, now, adjustment,
      schedule, schedule2, whatIf, iterations, wallClock, profileState, disk,
      done>>

\* a nap from 06:00 to 06:45 that was logged in an earlier run of the app
PersistedSession == Session(10, 1800, 1845, FALSE)

\* the store once loadData has read PersistedSession and its refresh has
\* written the derived state
LoadedStore(current) ==
    LET learnt == updateLearnerState(DEFAULT_LEARNER_STATE,
                                     <<PersistedSession>>, 6, LoadDate)
    IN  [sessions |-> <<PersistedSession>>,
         learnerState |-> learnt,
         schedule |-> generateSchedule(learnt, PersistedSession, NoProfile,
                                       current, LoadDate, FirstBlockId(0)),
         coachTips |-> generateCoachTips(<<PersistedSession>>, learnt,
                                         NoProfile, LoadDate)]

\* the rows scheduleNotifications logged for the blocks of that schedule
LoadedLog(current) ==
    LET blocks == LoadedStore(current).schedule
    IN  { LogEntry(LogId(0, i), blocks[i].id, blocks[i].startISO,
                   "scheduled") :
            i \in { j \in 1..Len(blocks) : blocks[j].startISO > current } }

\* the app starts on an empty database, or on one holding PersistedSession
InitStore ==
    /\ now \in StoreNows
    /\ \/ store = InitialStore /\ notificationLog = {}
       \/ store = LoadedStore(now) /\ notificationLog = LoadedLog(now)
    /\ calls = [c \in 1..MaxCalls |-> IdleCall]
    /\ notifyOrder = <<>>
    /\ profileState = [profiles |-> <<>>, activeProfileId |-> NoId,
                       profile |-> NoStoredProfile]
    /\ disk = [profiles |-> <<>>, asyncProfiles |-> <<>>,
               activeProfileId |-> NoId, sessions |-> <<>>,
               learnerState |-> NullState]
    /\ learnerState = NullState
    /\ lastSession = NoSession
    /\ activeProfile = NoProfile
    /\ adjustment = 0
    /\ wallClock = LoadDate
    /\ uuid = 0
    /\ schedule = <<>>
    /\ schedule2 = <<>>
    /\ whatIf = <<>>
    /\ iterations = 0
    /\ done = <<>>
    /\ IdleLearner
    /\ IdleCoach

\* the call c suspends at an await with new values of its locals
Suspend(c, locals) == calls' = [calls EXCEPT ![c] = locals]

\* addSession(session) up to await db.saveSession: reads sessions; the list
\* it will store is [session, ...sessions]
AddSession(c) ==
    /\ calls[c].pc = "idle"
    /\ \E t \in LoggedTimes :
         LET session == Session(10 + c, t[1], t[2], FALSE)
         IN  Suspend(c, [calls[c] EXCEPT
                           !.pc = "saving",
                           !.op = "add",
                           !.arg = session,
                           !.newSessions = <<session>> \o store.sessions])
    /\ UNCHANGED <<store, notificationLog, notifyOrder, uuid, storeFrame>>

\* updateSession(session) up to await db.saveSession, for an edit that moves
\* the end of a logged session by half an hour
UpdateSession(c) ==
    /\ calls[c].pc = "idle"
    /\ \E k \in 1..Len(store.sessions) :
         LET sessionsRead == store.sessions
             session == [sessionsRead[k] EXCEPT !.endISO = @ + 30]
         IN  /\ sessionsRead[k].endISO # NoEnd
             /\ Suspend(c, [calls[c] EXCEPT
                              !.pc = "saving",
                              !.op = "update",
                              !.arg = session,
                              !.newSessions =
                                  [i \in 1..Len(sessionsRead) |->
                                     IF sessionsRead[i].id = session.id
                                     THEN session ELSE sessionsRead[i]]])
    /\ UNCHANGED <<store, notificationLog, notifyOrder, uuid, storeFrame>>

\* deleteSession(id) up to await db.deleteSession
DeleteSession(c) ==
    /\ calls[c].pc = "idle"
    /\ \E k \in 1..Len(store.sessions) :
         LET sessionsRead == store.sessions
             id == sessionsRead[k].id
         IN  Suspend(c, [calls[c] EXCEPT
                           !.pc = "saving",
                           !.op = "delete",
                           !.arg = sessionsRead[k],
                           !.newSessions =
                               [i \in 1..Len(sessionsRead) |->
                                  IF sessionsRead[i].id = id
                                  THEN [sessionsRead[i] EXCEPT
                                          !.deleted = TRUE]
                                  ELSE sessionsRead[i]]])
    /\ UNCHANGED <<store, notificationLog, notifyOrder, uuid, storeFrame>>

\* after the saves: set({ sessions: newSessions }), then refreshDerivedState
\* up to await db.saveLearnerState: it reads the store and runs the learner
SaveSessions(c) ==
    /\ calls[c].pc = "saving"
    /\ LET profileSessions == ProfileSessions(calls[c].newSessions)
       IN  /\ store' = [store EXCEPT !.sessions = calls[c].newSessions]
           /\ Suspend(c, [calls[c] EXCEPT
                            !.pc = "learnt",
                            !.profileSessions = profileSessions,
                            !.newLearnerState =
                                updateLearnerState(store.learnerState,
                                                   profileSessions, 6,
                                                   wallClock)])
    /\ UNCHANGED <<notificationLog, notifyOrder, uuid, storeFrame>>

\* after the learner state is saved: the last session, generateSchedule and
\* generateCoachTips, up to await db.clearScheduleBlocks
Derive(c) ==
    /\ calls[c].pc = "learnt"
    /\ LET blocks == generateSchedule(calls[c].newLearnerState,
                                      LastSession(calls[c].profileSessions),
                                      NoProfile, now, wallClock,
                                      FirstBlockId(c))
       IN  Suspend(c, [calls[c] EXCEPT
                         !.pc = "derived",
                         !.schedule = blocks,
                         !.coachTips =
                             generateCoachTips(calls[c].profileSessions,
                                               calls[c].newLearnerState,
                                               NoProfile, wallClock)])
    /\ UNCHANGED <<store, notificationLog, notifyOrder, uuid, storeFrame>>

\* after the blocks are saved: NotificationService.scheduleNotifications is
\* called with the schedule, up to await getNotificationsModule
ScheduleNotifications(c) ==
    /\ calls[c].pc = "derived"
    /\ Suspend(c, [calls[c] EXCEPT !.pc = "cancelRead"])
    /\ notifyOrder' = Append(notifyOrder, c)
    /\ UNCHANGED <<store, notificationLog, uuid, storeFrame>>

\* cancelAllNotifications: const logs = await db.getNotificationLogs()
GetNotificationLogs(c) ==
    /\ calls[c].pc = "cancelRead"
    /\ Suspend(c, [calls[c] EXCEPT
                     !.pc = "cancelWrite",
                     !.logs = SelectSeq(getNotificationLogs(notificationLog),
                                        IsScheduled)])
    /\ UNCHANGED <<store, notificationLog, notifyOrder, uuid, storeFrame>>

\* cancelAllNotifications: the next log that was read as 'scheduled' is
\* written back as 'canceled'
CancelLog(c) ==
    /\ calls[c].pc = "cancelWrite"
    /\ calls[c].logs # <<>>
    /\ notificationLog' =
         logNotification(notificationLog,
                         [Head(calls[c].logs) EXCEPT !.status = "canceled"])
    /\ Suspend(c, [calls[c] EXCEPT !.logs = Tail(@)])
    /\ UNCHANGED <<store, notifyOrder, uuid, storeFrame>>

\* cancelAllNotifications returns after cancelAllScheduledNotificationsAsync
CancelAllScheduled(c) ==
    /\ calls[c].pc = "cancelWrite"
    /\ calls[c].logs = <<>>
    /\ Suspend(c, [calls[c] EXCEPT !.pc = "notify", !.next = 1])
    /\ UNCHANGED <<store, notificationLog, notifyOrder, uuid, storeFrame>>

\* one pass of for (const block of schedule): a block that starts after
\* new Date() is logged as 'scheduled' under a fresh identifier
LogBlock(c) ==
    /\ calls[c].pc = "notify"
    /\ calls[c].next <= Len(calls[c].schedule)
    /\ LET block == calls[c].schedule[calls[c].next]
       IN  IF block.startISO > now
           THEN notificationLog' =
                  logNotification(notificationLog,
                                  LogEntry(LogId(c, calls[c].next), block.id,
                                           block.startISO, "scheduled"))
           ELSE UNCHANGED notificationLog
    /\ Suspend(c, [calls[c] EXCEPT !.next = @ + 1])
    /\ UNCHANGED <<store, notifyOrder, uuid, storeFrame>>

\* scheduleNotifications has returned: set({ learnerState, schedule,
\* scheduleBlocks, coachTips }), and the call is over
FinishRefresh(c) ==
    /\ calls[c].pc = "notify"
    /\ calls[c].next > Len(calls[c].schedule)
    /\ store' = [store EXCEPT
                   !.learnerState = calls[c].newLearnerState,
                   !.schedule = calls[c].schedule,
                   !.coachTips = calls[c].coachTips]
    /\ Suspend(c, [calls[c] EXCEPT !.pc = "done"])
    /\ UNCHANGED <<notificationLog, notifyOrder, uuid, storeFrame>>

NextStore ==
    \E c \in 1..MaxCalls :
        \/ AddSession(c)
        \/ UpdateSession(c)
        \/ DeleteSession(c)
        \/ SaveSessions(c)
        \/ Derive(c)
        \/ ScheduleNotifications(c)
        \/ GetNotificationLogs(c)
        \/ CancelLog(c)
        \/ CancelAllScheduled(c)
        \/ LogBlock(c)
        \/ FinishRefresh(c)

SpecStore == InitStore /\ [][NextStore]_vars

----------------------------------------------------------------------------
(* The profiles of the store: addProfile, updateProfile, deleteProfile,    *)
(* switchProfile, loadData at a restart of the app, and addSession, each   *)
(* called after the call before it has returned.  A session of this part   *)
(* carries its profileId (NoId when it has none).  The rows of the         *)
(* sessions table are read back ORDER BY startISO, so the model keeps them *)
(* in the order of the store.                                              *)

\* the profile argument of generateSchedule and generateCoachTips
AsProfile(p) ==
    IF p = NoStoredProfile THEN NoProfile ELSE Profile(p.birthDate)

\* differenceInMonths(new Date(), birth) of date-fns, for a birth date that
\* is not after the device date: the full months between the two
differenceInMonths(dateLeft, dateRight) ==
    LET diff == dateLeft.month - dateRight.month
    IN  IF diff > 0 /\ dateLeft.day < dateRight.day THEN diff - 1 ELSE diff

\* profileSessions of refreshDerivedState: the sessions that are not deleted
\* and, with an active profile, have no profileId or that of the profile;
\* the learner, the schedule and the coach do not read their profileId
ActiveSessions(list, activeProfileId) ==
    LET OfProfile(s) ==
            /\ ~s.deleted
            /\ \/ activeProfileId = NoId
               \/ s.profileId = NoId
               \/ s.profileId = activeProfileId
        kept == SelectSeq(list, OfProfile)
    IN  [i \in 1..Len(kept) |->
           Session(kept[i].id, kept[i].startISO, kept[i].endISO,
                   kept[i].deleted)]

\* db.saveProfile(profile): INSERT OR REPLACE deletes the row of that id and
\* inserts the new row after the others
InsertOrReplace(table, row) ==
    LET Other(r) == r.id # row.id
    IN  Append(SelectSeq(table, Other), row)

\* refreshDerivedState() on the store st with the profiles ps, up to the
\* learner: profileSessions and newLearnerState
Learnt(st, ps, today) ==
    [sessions |-> ActiveSessions(st.sessions, ps.activeProfileId),
     state |->
         updateLearnerState(
             st.learnerState,
             ActiveSessions(st.sessions, ps.activeProfileId),
             IF ps.profile = NoStoredProfile THEN 6
             ELSE differenceInMonths(today, ps.profile.birthDate),
             today)]

\* refreshDerivedState() from there to its set(): the learner state is
\* saved, the schedule and the tips are derived for the active profile; the
\* identifiers of the blocks are those of call k
Derived(st, ps, saved, l, current, today, k) ==
    [store |-> [st EXCEPT
                  !.learnerState = l.state,
                  !.schedule =
                      generateSchedule(l.state, LastSession(l.sessions),
                                       AsProfile(ps.profile), current, today,
                                       FirstBlockId(k)),
                  !.coachTips =
                      generateCoachTips(l.sessions, l.state,
                                        AsProfile(ps.profile), today)],
     disk |-> [saved EXCEPT !.learnerState = l.state]]

\* the end of a handler that refreshes: r is what refreshDerivedState has
\* derived and saved; scheduleNotifications cancels the rows it reads as
\* 'scheduled' and logs the blocks that start after new Date()
Refresh(r, ps, name) ==
    LET blocks == r.store.schedule
        logs == Range(SelectSeq(getNotificationLogs(notificationLog),
                                IsScheduled))
        canceled == { IF row \in logs THEN [row EXCEPT !.status = "canceled"]
                      ELSE row : row \in notificationLog }
        logged == { LogEntry(LogId(Len(done) + 1, i), blocks[i].id,
                             blocks[i].startISO, "scheduled") :
                      i \in { j \in 1..Len(blocks) :
                                blocks[j].startISO > now } }
    IN  /\ store' = r.store
        /\ disk' = r.disk
        /\ profileState' = ps
        /\ notificationLog' = canceled \cup logged
        /\ done' = Append(done, name)
        /\ UNCHANGED <<learnerVars, coachVars, lastSession, activeProfile,
                       now, adjustment, schedule, schedule2, whatIf,
                       iterations, wallClock, calls, notifyOrder, uuid>>

\* a handler has set the store to st and the profiles to ps, has left saved
\* on the device, and ends with await get().refreshDerivedState()
SetAndRefresh(st, ps, saved, name) ==
    Refresh(Derived(st, ps, saved, Learnt(st, ps, wallClock), now, wallClock,
                    Len(done) + 1),
            ps, name)

\* addProfile(profile) with a profile of a new id; it does not refresh
AddProfile ==
    /\ Len(done) < MaxSteps
    /\ \E p \in Profiles \ {NoProfile} :
         LET newProfile == StoredProfile(Len(done) + 1, p.birthDate)
             newProfiles == Append(profileState.profiles, newProfile)
         IN  /\ disk' = [disk EXCEPT
                           !.profiles = InsertOrReplace(@, newProfile),
                           !.asyncProfiles = newProfiles,
                           !.activeProfileId = newProfile.id]
             /\ profileState' = [profiles |-> newProfiles,
                                 activeProfileId |-> newProfile.id,
                                 profile |-> newProfile]
    /\ done' = Append(done, "addProfile")
    /\ UNCHANGED <<store, notificationLog, learnerVars, coachVars,
                   lastSession, activeProfile, now, adjustment, schedule,
                   schedule2, whatIf, iterations, wallClock, calls,
                   notifyOrder, uuid>>

\* updateProfile(profile) for an edit of the birth date of a profile
UpdateProfile ==
    /\ Len(done) < MaxSteps
    /\ \E k \in 1..Len(profileState.profiles), p \in Profiles \ {NoProfile} :
         LET profiles == profileState.profiles
             edited == StoredProfile(profiles[k].id, p.birthDate)
             newProfiles == [i \in 1..Len(profiles) |->
                               IF profiles[i].id = edited.id THEN edited
                               ELSE profiles[i]]
             newActive == IF edited.id = profileState.activeProfileId
                          THEN edited ELSE profileState.profile
         IN  SetAndRefresh(store,
                           [profileState EXCEPT !.profiles = newProfiles,
                                                !.profile = newActive],
                           [disk EXCEPT
                              !.profiles = InsertOrReplace(@, edited),
                              !.asyncProfiles = newProfiles],
                           "updateProfile")

\* deleteProfile(id) of a profile of the list
DeleteProfile ==
    /\ Len(done) < MaxSteps
    /\ \E k \in 1..Len(profileState.profiles) :
         LET profiles == profileState.profiles
             id == profiles[k].id
             Other(p) == p.id # id
             newProfiles == SelectSeq(profiles, Other)
             Deleted(list) == [i \in 1..Len(list) |->
                                 IF list[i].profileId = id
                                 THEN [list[i] EXCEPT !.deleted = TRUE]
                                 ELSE list[i]]
             wasActive == profileState.activeProfileId = id
             newActiveId == IF ~wasActive THEN profileState.activeProfileId
                            ELSE IF newProfiles # <<>>
                            THEN newProfiles[1].id ELSE NoId
             newActiveProfile ==
                 IF ~wasActive THEN profileState.profile
                 ELSE IF newProfiles # <<>> THEN newProfiles[1]
                 ELSE NoStoredProfile
         IN  SetAndRefresh([store EXCEPT !.sessions = Deleted(@)],
                           [profiles |-> newProfiles,
                            activeProfileId |-> newActiveId,
                            profile |-> newActiveProfile],
                           [disk EXCEPT
                              !.profiles = SelectSeq(@, Other),
                              !.asyncProfiles = newProfiles,
                              !.sessions = Deleted(@),
                              !.activeProfileId =
                                  IF wasActive /\ newActiveId # NoId
                                  THEN newActiveId ELSE @],
                           "deleteProfile")

\* switchProfile(id); for an id that is not in the list it returns at once
SwitchProfile ==
    /\ Len(done) < MaxSteps
    /\ \E k \in 1..Len(profileState.profiles) :
         LET found == profileState.profiles[k]
         IN  SetAndRefresh(store,
                           [profileState EXCEPT
                              !.activeProfileId = found.id,
                              !.profile = found],
                           [disk EXCEPT !.activeProfileId = found.id],
                           "switchProfile")

\* loadData() when the app starts again: it reads what the device holds.
\* There is no legacy profile, and AsyncStorage holds the sessions and the
\* learner state of the database, so the migration imports only profiles
LoadData ==
    /\ Len(done) < MaxSteps
    /\ LET profiles == IF disk.profiles = <<>> THEN disk.asyncProfiles
                       ELSE disk.profiles
           activeProfileId ==
               IF disk.activeProfileId = NoId /\ profiles # <<>>
               THEN profiles[1].id ELSE disk.activeProfileId
           found == { i \in 1..Len(profiles) :
                        profiles[i].id = activeProfileId }
           loaded == IF found = {} THEN NoStoredProfile
                     ELSE profiles[CHOOSE i \in found :
                                     \A j \in found : i <= j]
       IN  SetAndRefresh([store EXCEPT
                            !.sessions =
                                SortDesc(SelectSeq(disk.sessions,
                                                   IsNotDeleted)),
                            !.learnerState =
                                IF disk.learnerState = NullState
                                THEN DEFAULT_LEARNER_STATE
                                ELSE disk.learnerState],
                         [profiles |-> profiles,
                          activeProfileId |-> activeProfileId,
                          profile |-> loaded],
                         [disk EXCEPT !.profiles = profiles,
                                      !.activeProfileId = activeProfileId],
                         "loadData")

\* addSession(session) for a nap of one hour logged without a profileId
AddSessionOfProfile ==
    /\ Len(done) < MaxSteps
    /\ LET start == 1500 + 120 * Len(done)
           sessionWithProfile ==
               [id |-> 10 + Len(done), startISO |-> start,
                endISO |-> start + 60, deleted |-> FALSE,
                profileId |-> profileState.activeProfileId]
       IN  SetAndRefresh([store EXCEPT
                            !.sessions = <<sessionWithProfile>> \o @],
                         profileState,
                         [disk EXCEPT
                            !.sessions = Append(@, sessionWithProfile)],
                         "addSession")

InitProfiles ==
    /\ now \in StoreNows
    /\ IdleStore
    /\ learnerState = NullState
    /\ lastSession = NoSession
    /\ activeProfile = NoProfile
    /\ adjustment = 0
    /\ wallClock = LoadDate
    /\ uuid = 0
    /\ schedule = <<>>
    /\ schedule2 = <<>>
    /\ whatIf = <<>>
    /\ iterations = 0
    /\ done = <<>>
    /\ IdleLearner
    /\ IdleCoach

NextProfiles ==
    \/ AddProfile
    \/ UpdateProfile
    \/ DeleteProfile
    \/ SwitchProfile
    \/ LoadData
    \/ AddSessionOfProfile

SpecProfiles == InitProfiles /\ [][NextProfiles]_vars

----------------------------------------------------------------------------
(* Properties of the learner *)

\* the call that returned last
Returned(name) == done # <<>> /\ done[Len(done)] = name

\* the brackets of the table whose [min, max] contains an age
BracketsOf(age) ==
    {i \in 1..Len(AGE_BASELINES) :
        /\ AGE_BASELINES[i].minAgeMonths <= age
        /\ age <= AGE_BASELINES[i].maxAgeMonths}

\* C14: the brackets cover every whole-month age from 0 to the table maximum
\* (36) with no gap and no overlap; lookup returns the one bracket whose
\* [min, max] contains the age, and the last (oldest) bracket for every age
\* above the maximum.
C14_LookupTotalAndUnambiguous ==
    LET last == AGE_BASELINES[Len(AGE_BASELINES)]
    IN  /\ last.maxAgeMonths = 36
        /\ \A age \in 0..last.maxAgeMonths :
              Cardinality(BracketsOf(age)) = 1
        /\ Returned("lookup") =>
              /\ ageMonths <= last.maxAgeMonths =>
                    \E i \in BracketsOf(ageMonths) :
                        ageBaseline = AGE_BASELINES[i]
              /\ ageMonths > last.maxAgeMonths => ageBaseline = last

\* the first age above the table: the oldest bracket came back, and the age
\* is not within it
C14_Witness ==
    /\ Returned("lookup")
    /\ ageMonths = 37
    /\ ageBaseline.minAgeMonths = 19
    /\ ageBaseline.maxAgeMonths = 36

\* the sessions the learner walks, oldest first
Usable(list) == SortAsc(SelectSeq(list, IsValid))

\* positions of the sessions shorter than 240 minutes in a usable list u
Naps(u) == {i \in 1..Len(u) : Duration(u[i]) < 240}

\* gap between the i-th session of u and the one before it
Gap(u, i) == u[i].startISO - u[i - 1].endISO

\* the consecutive-session gaps strictly between 0 and 720 minutes
AcceptedGaps(u) == {i \in 2..Len(u) : Gap(u, i) > 0 /\ Gap(u, i) < 720}

DataPoints(u) == Cardinality(Naps(u)) + Cardinality(AcceptedGaps(u))

SameEstimate(a, b) ==
    /\ a.ewmaNapLengthMin = b.ewmaNapLengthMin
    /\ a.ewmaWakeWindowMin = b.ewmaWakeWindowMin
    /\ a.confidence = b.confidence

\* C1: running the learner again on its own result, with the same sessions and
\* age, returns the same nap estimate, wake-window estimate and confidence.
C1_RerunIdempotent ==
    Returned("rerun") => SameEstimate(rerun, learnerState)

ClampedNaps(u) == {Max(10, Min(Duration(u[i]), 180)) : i \in Naps(u)}

ClampedGaps(u) == {Max(30, Min(Gap(u, i), 400)) : i \in AcceptedGaps(u)}

\* C10: from a cold start (no previous state), when all naps have the same
\* clamped duration d the nap estimate is d, and when all accepted wake
\* windows have the same clamped length g the wake-window estimate is g.
C10_ColdStartSeeds ==
    (Returned("update") /\ currentState.null) =>
        LET u == Usable(sessions)
            naps == ClampedNaps(u)
            gaps == ClampedGaps(u)
        IN  /\ \A d \in naps :
                  naps = {d} => learnerState.ewmaNapLengthMin = d
            /\ \A g \in gaps :
                  gaps = {g} => learnerState.ewmaWakeWindowMin = g

\* several naps of one clamped duration and several equal wake windows, which
\* differ from the baseline midpoints the accumulators start from
C10_Witness ==
    /\ Returned("update")
    /\ currentState.null
    /\ LET u == Usable(sessions)
       IN  /\ Cardinality(Naps(u)) >= 2
           /\ Cardinality(AcceptedGaps(u)) >= 2
           /\ ClampedNaps(u) = {60}
           /\ ClampedGaps(u) = {120}
    /\ learnerState.ewmaNapLengthMin = 60
    /\ learnerState.ewmaWakeWindowMin = 120

\* C11: when the session list has no non-deleted session with an end, update
\* returns the previous state unchanged, every field included (confidence and
\* timestamp too), or the seed defaults (nap 60, wake window 90) when there is
\* no previous state.
C11_NoUsableSessionKeepsState ==
    (Returned("update") /\ Len(Usable(sessions)) = 0) =>
        IF currentState.null
        THEN /\ learnerState = DEFAULT_LEARNER_STATE
             /\ learnerState.ewmaNapLengthMin = 60
             /\ learnerState.ewmaWakeWindowMin = 90
        ELSE learnerState = currentState

\* a list of a deleted and a still open session only, and a previous state
\* that differs from the defaults in every field, came back as it was
C11_Witness ==
    /\ Returned("update")
    /\ Len(sessions) = 2
    /\ sessions[1].deleted
    /\ sessions[2].endISO = NoEnd
    /\ ~currentState.null
    /\ currentState.version # DEFAULT_LEARNER_STATE.version
    /\ currentState.lastUpdatedISO # wallClock
    /\ learnerState = currentState

\* C13: adding (or, read backwards, removing) a session that is deleted or
\* has no end changes neither the estimates and confidence returned by update
\* nor the tip list returned by evaluate.
C13_UnusableSessionsIgnored ==
    LET unusable == added.deleted \/ added.endISO = NoEnd
    IN  /\ (Returned("extended") /\ unusable)
              => SameEstimate(extended, learnerState)
        /\ (Returned("evaluateExtended") /\ unusable)
              => extendedTips = coachTips

\* a deleted session was added which, had it counted, would have changed both
\* the estimates and the tips; the tips came back the same and not empty
C13_Witness ==
    /\ Returned("evaluateExtended")
    /\ added.deleted
    /\ added.endISO # NoEnd
    /\ coachTips # <<>>
    /\ extendedTips = coachTips
    /\ SameEstimate(extended, learnerState)
    /\ LET counted == Append(sessions, [added EXCEPT !.deleted = FALSE])
           learnt == updateLearnerState(currentState, counted, ageMonths,
                                        wallClock)
       IN  /\ ~SameEstimate(learnt, learnerState)
           /\ generateCoachTips(counted, learnt, activeProfile, wallClock)
                # coachTips

----------------------------------------------------------------------------
(* Properties of the simulator *)

IsSleep(block) == block.kind = "nap" \/ block.kind = "bedtime"

\* every windDown block of a list is directly followed by its sleep block
WindDownsPaired(blocks) ==
    \A i \in 1..Len(blocks) :
        blocks[i].kind = "windDown" =>
            /\ i < Len(blocks)
            /\ IsSleep(blocks[i + 1])
            /\ blocks[i + 1].startISO = blocks[i].endISO

\* C2: in every schedule returned by generate or generateWhatIf, every
\* windDown block is immediately followed by the nap or bedtime block that
\* starts where it ends.
C2_WindDownHasSleep ==
    /\ Returned("generate") => WindDownsPaired(schedule)
    /\ Returned("whatIf") => WindDownsPaired(whatIf)

Ordered(blocks) ==
    \A i \in 1..Len(blocks) - 1 : blocks[i].startISO <= blocks[i + 1].startISO

\* C3 (as stated): for any learner state and any adjustment, the blocks are in
\* non-decreasing start order.
C3_AlwaysOrdered ==
    /\ Returned("generate") => Ordered(schedule)
    /\ Returned("whatIf") => Ordered(whatIf)

\* C3 (amended): the blocks are in non-decreasing start order whenever the
\* wake-window estimate the simulation runs on (after the adjustment of
\* generateWhatIf) is not negative.
C3_OrderedForNonNegativeWakeWindow ==
    /\ (Returned("generate") /\ learnerState.ewmaWakeWindowMin >= 0)
          => Ordered(schedule)
    /\ (Returned("whatIf")
        /\ learnerState.ewmaWakeWindowMin + adjustment >= 0)
          => Ordered(whatIf)

\* a what-if run on a wake window of zero minutes that emitted a wind-down
\* after a bedtime block, i.e. across the 15-minute pull-back
C3_Witness ==
    /\ Returned("whatIf")
    /\ learnerState.ewmaWakeWindowMin + adjustment = 0
    /\ \E i \in 1..Len(whatIf) - 1 :
          /\ whatIf[i].kind = "bedtime"
          /\ whatIf[i + 1].kind = "windDown"

\* C4: generate returns at most 20 blocks, wind-down and sleep blocks counted
\* together.
C4_AtMostTwentyBlocks ==
    Returned("generate") => Len(schedule) <= maxBlocks

\* C5 (as stated): after a non-zero adjustment every what-if block has lower
\* confidence than the block at the same position of the unadjusted schedule,
\* unless it is at the 0.1 floor.
C5_LowerThanSamePosition ==
    (Returned("whatIf") /\ adjustment # 0 /\ wallClock = LoadDate) =>
        \A i \in 1..Min(Len(whatIf), Len(schedule)) :
            \/ whatIf[i].confidence < schedule[i].confidence
            \/ whatIf[i].confidence = 10

\* C5 (amended): after a non-zero adjustment every what-if block has lower
\* confidence than the learner state it was generated from, unless it is at
\* the 0.1 floor.
C5_LowerThanLearner ==
    (Returned("whatIf") /\ adjustment # 0) =>
        \A i \in 1..Len(whatIf) :
            \/ whatIf[i].confidence < learnerState.confidence
            \/ whatIf[i].confidence = 10

\* a what-if run with a negative adjustment whose blocks are above the floor
C5_Witness ==
    /\ Returned("whatIf")
    /\ adjustment < 0
    /\ Len(whatIf) > 0
    /\ \A i \in 1..Len(whatIf) :
          /\ whatIf[i].confidence > 10
          /\ whatIf[i].confidence < learnerState.confidence

\* C6: for fixed inputs two calls of generate return identical block lists,
\* identifiers included (and two calls of evaluate identical tip lists).
C6_GenerateRepeatable ==
    /\ Returned("generateAgain") => schedule2 = schedule
    /\ Returned("evaluateAgain") => coachTips2 = coachTips

\* position of the first nap or bedtime block of a list, 0 when it has none
FirstSleep(blocks) ==
    LET sleeps == {i \in 1..Len(blocks) : IsSleep(blocks[i])}
    IN  IF sleeps = {} THEN 0
        ELSE CHOOSE i \in sleeps : \A j \in sleeps : i <= j

OfBedtime(block) ==
    \/ block.kind = "bedtime"
    \/ /\ block.kind = "windDown"
       /\ block.rationale.text = "wind-down before bedtime"

\* every block carries the confidence c the simulation ran on, less 0.1 for a
\* bedtime, clamped to [0.1, 1.0]
ConfidenceFits(blocks, c) ==
    \A i \in 1..Len(blocks) :
        /\ blocks[i].confidence >= 10
        /\ blocks[i].confidence <= 100
        /\ blocks[i].confidence =
              IF OfBedtime(blocks[i]) THEN Max(10, Min(100, c - 10))
              ELSE Max(10, Min(100, c))

\* C16: every block returned by generate or generateWhatIf has confidence in
\* [0.1, 1.0]; a nap or its wind-down carries clamp(confidence, 0.1, 1.0) and
\* a bedtime or its wind-down clamp(confidence - 0.1, 0.1, 1.0), where
\* confidence is that of the learner state the simulation ran on (for
\* generateWhatIf the one already lowered by the size of the adjustment).
C16_BlockConfidenceClamped ==
    /\ Returned("generate") =>
          ConfidenceFits(schedule, learnerState.confidence)
    /\ Returned("whatIf") =>
          ConfidenceFits(whatIf,
                         Max(10, learnerState.confidence - Abs(adjustment)))

\* a confidence of 0.15: the naps carry 0.15 and the bedtimes, for which
\* 0.15 - 0.1 is below the floor, carry 0.1
C16_Witness ==
    /\ Returned("generate")
    /\ learnerState.confidence = 15
    /\ \E i \in 1..Len(schedule) :
          schedule[i].kind = "nap" /\ schedule[i].confidence = 15
    /\ \E i \in 1..Len(schedule) :
          schedule[i].kind = "bedtime" /\ schedule[i].confidence = 10

----------------------------------------------------------------------------
(* Properties of the store *)

\* no call is suspended at an await, and at least one has been made
AllCallsCompleted ==
    /\ \A c \in 1..MaxCalls : calls[c].pc \in {"idle", "done"}
    /\ \E c \in 1..MaxCalls : calls[c].pc = "done"

\* a block list without the identifiers uuidv4() gave its blocks
WithoutIds(blocks) ==
    [i \in 1..Len(blocks) |-> [blocks[i] EXCEPT !.id = 0]]

\* C17: after any interleaving of addSession, updateSession and deleteSession
\* calls that have all run to completion, the store's learnerState, schedule
\* and coachTips are the ones computed from the store's final sessions list.
C17_DerivedFollowsSessions ==
    AllCallsCompleted =>
        LET final == ProfileSessions(store.sessions)
            learnt == store.learnerState
        IN  /\ SelectSeq(final, HasEnd) # <<>> =>
                  SameEstimate(learnt,
                               updateLearnerState(DEFAULT_LEARNER_STATE,
                                                  final, 6, wallClock))
            /\ WithoutIds(store.schedule) =
                  WithoutIds(generateSchedule(learnt, LastSession(final),
                                              NoProfile, now, wallClock, 0))
            /\ store.coachTips =
                  generateCoachTips(final, learnt, NoProfile, wallClock)

\* C18: once the scheduleNotifications calls have returned, also when calls
\* of overlapping refreshes interleaved, every notification-log entry with
\* status 'scheduled' was created for a block of the most recently passed
\* schedule whose start is in the future (so that every entry scheduled
\* before that call is 'canceled' or 'delivered').
C18_ScheduledAreOfLatestSchedule ==
    (AllCallsCompleted /\ notifyOrder # <<>>) =>
        LET latest == calls[notifyOrder[Len(notifyOrder)]].schedule
        IN  \A row \in notificationLog :
                row.status = "scheduled" =>
                    \E i \in 1..Len(latest) :
                        /\ latest[i].id = row.scheduleBlockId
                        /\ latest[i].startISO > now

\* the session of the store that call c added, edited or deleted shows it
Reflected(c) ==
    \E i \in 1..Len(store.sessions) :
        LET s == store.sessions[i]
        IN  /\ s.id = calls[c].arg.id
            /\ calls[c].op = "update" => s.endISO >= calls[c].arg.endISO
            /\ calls[c].op = "delete" => s.deleted

\* C28: after overlapping addSession, updateSession and deleteSession calls
\* have all completed, the store's sessions list holds every added session
\* and shows every edit and every soft-delete.
C28_NoSessionMutationLost ==
    AllCallsCompleted =>
        \A c \in 1..MaxCalls : calls[c].pc = "done" => Reflected(c)

----------------------------------------------------------------------------
(* Properties of the profiles of the store *)

\* the ids of the profiles in the list of the store
ProfileIds == { profileState.profiles[i].id :
                  i \in 1..Len(profileState.profiles) }

\* activeProfileId and profile agree with the list of profiles
ActiveProfileAgrees ==
    \/ /\ profileState.activeProfileId = NoId
       /\ profileState.profile = NoStoredProfile
    \/ \E i \in 1..Len(profileState.profiles) :
          /\ profileState.profiles[i].id = profileState.activeProfileId
          /\ profileState.profile = profileState.profiles[i]

\* C29: after any sequence of addProfile, updateProfile, deleteProfile,
\* switchProfile and loadData, activeProfileId is null with profile null, or
\* the id of a profile of the list with profile equal to that entry; and the
\* session addSession has just added is not tagged with the id of a profile
\* that is not in the list
C29_ActiveProfileConsistent ==
    /\ ActiveProfileAgrees
    /\ Returned("addSession") =>
          Head(store.sessions).profileId \in ProfileIds \cup {NoId}

----------------------------------------------------------------------------
(* Properties of the coach *)

HasTip(tips, id) == \E i \in 1..Len(tips) : tips[i].id = id

\* C7: evaluate never returns both a 'high-confidence' and an
\* 'insufficient-data' tip.
C7_RulesSixAndSevenExclusive ==
    Returned("evaluate") =>
        ~(HasTip(coachTips, "high-confidence")
          /\ HasTip(coachTips, "insufficient-data"))

\* exactly five usable sessions and a confidence at the threshold: rule 6
\* fires and rule 7 just does not
C7_Witness ==
    /\ Returned("evaluate")
    /\ Len(SelectSeq(sessions, IsValid)) = MIN_SESSIONS_FOR_CONFIDENCE
    /\ learnerState.confidence = HIGH_CONFIDENCE_THRESHOLD
    /\ HasTip(coachTips, "high-confidence")
    /\ ~HasTip(coachTips, "insufficient-data")

----------------------------------------------------------------------------
(* Properties of the coach's rules taken together *)

TipIds(tips) == { tips[i].id : i \in 1..Len(tips) }

RuleIds ==
    { "short-nap-streak", "overtired", "bedtime-drift", "split-night",
      "inconsistent-schedule", "high-confidence", "insufficient-data" }

RulePairs == { pair \in SUBSET RuleIds : Cardinality(pair) = 2 }

\* the sets of tips the coach returns on its inputs
CoachTipSets ==
    { TipIds(generateCoachTips(list, learner, profile, LoadDate)) :
        list \in CoachLists,
        learner \in CoachInputs, profile \in Profiles }

CoOccur(pair) == \E tips \in CoachTipSets : pair \subseteq tips

SixAndSeven == { "high-confidence", "insufficient-data" }

FiveAndSix == { "inconsistent-schedule", "high-confidence" }

FiveAndSeven == { "inconsistent-schedule", "insufficient-data" }

\* C19 as stated: every pair of rules other than 6 and 7 has an input on
\* which both tips are returned, 'inconsistent-schedule' with
\* 'high-confidence' and with 'insufficient-data' among them
C19_OnlySixAndSevenExclusive ==
    Returned("evaluate") =>
        \A pair \in RulePairs \ {SixAndSeven} : CoOccur(pair)

\* C19 amended: 'inconsistent-schedule' is never returned together with
\* 'high-confidence' or with 'insufficient-data', nor are these two returned
\* together; every other pair of rules has an input on which both tips are
\* returned
C19_ThreeExclusivePairs ==
    Returned("evaluate") =>
        /\ \A pair \in RulePairs \ {SixAndSeven, FiveAndSix, FiveAndSeven} :
              CoOccur(pair)
        /\ \A pair \in {SixAndSeven, FiveAndSix, FiveAndSeven} :
              ~(pair \subseteq TipIds(coachTips))

C19_Witness ==
    /\ Returned("evaluate")
    /\ "inconsistent-schedule" \in TipIds(coachTips)
    /\ Cardinality(TipIds(coachTips)) >= 4
    /\ learnerState.confidence = 70

----------------------------------------------------------------------------
(* Properties of the inconsistency rule *)

UsableCount(list) == Len(SelectSeq(list, IsValid))

\* the durations of the most recent naps, ten at most
RecentNapDurations(list) ==
    LET naps == SelectSeq(SortDesc(SelectSeq(list, IsValid)), IsNapSession)
    IN  [i \in 1..Min(10, Len(naps)) |-> Duration(naps[i])]

\* the standard deviation of the durations is above 30 minutes: the mean of
\* the squared distances to the mean is above 900
SpreadAbove30(durations) ==
    LET n == Len(durations)
        total == SumSeq(durations)
        distances == [i \in 1..n |-> (n * durations[i] - total)
                                      * (n * durations[i] - total)]
    IN  n > 0 /\ SumSeq(distances) > 900 * n * n * n

\* C20 as stated: 'inconsistent-schedule' is returned exactly when the
\* confidence is below 0.75, at least 5 sessions are usable and the standard
\* deviation of the ten most recent nap durations exceeds 30 minutes
C20_InconsistentIffSpread ==
    Returned("evaluate") =>
        (HasTip(coachTips, "inconsistent-schedule")
            <=> /\ learnerState.confidence < 75
                /\ UsableCount(sessions) >= 5
                /\ SpreadAbove30(RecentNapDurations(sessions)))

\* C20 amended: 'inconsistent-schedule' is returned exactly when the
\* confidence is below 0.75, at least 5 sessions are usable, at least 5 of
\* them are naps and the standard deviation of the ten most recent nap
\* durations exceeds 30 minutes
C20_InconsistentIffFiveNapsSpread ==
    Returned("evaluate") =>
        (HasTip(coachTips, "inconsistent-schedule")
            <=> /\ learnerState.confidence < 75
                /\ UsableCount(sessions) >= 5
                /\ Len(RecentNapDurations(sessions)) >= 5
                /\ SpreadAbove30(RecentNapDurations(sessions)))

C20_Witness ==
    /\ Returned("evaluate")
    /\ HasTip(coachTips, "inconsistent-schedule")
    /\ Len(RecentNapDurations(sessions)) = 5
    /\ UsableCount(sessions) > 5

----------------------------------------------------------------------------
(* Properties of the single rules of the coach *)

\* the usable sessions, newest first
UsableDesc(list) == SortDesc(SelectSeq(list, IsValid))

TipsOf(tips, id) == SelectSeq(tips, LAMBDA t : t.id = id)

AsSet(q) == { q[i] : i \in 1..Len(q) }

\* the ids of the usable sessions lying strictly inside session s
NestedIds(list, s) ==
    { o.id : o \in { u \in AsSet(UsableDesc(list)) :
                        u.startISO > s.startISO /\ u.endISO < s.endISO } }

\* the 3 most recent usable sessions of 240 minutes or more, newest first
RecentNights(list) ==
    LET long == SelectSeq(UsableDesc(list),
                          LAMBDA u : u.endISO - u.startISO >= 240)
    IN  SubSeq(long, 1, Min(3, Len(long)))

\* the positions in RecentNights of the nights with a session inside
SplitPositions(list) ==
    { i \in 1..Len(RecentNights(list)) :
        NestedIds(list, RecentNights(list)[i]) # {} }

RecentShorterThan240(list) ==
    LET shorter == SelectSeq(UsableDesc(list),
                             LAMBDA u : u.endISO - u.startISO < 240)
    IN  SubSeq(shorter, 1, Min(3, Len(shorter)))

\* those of them that last under 30 minutes
Under30(list) ==
    SelectSeq(RecentShorterThan240(list),
              LAMBDA u : u.endISO - u.startISO < 30)

BracketWakeWindowMax(profile, today) ==
    getBaselineForAge(IF profile.none THEN 6
                      ELSE calculateAgeInMonths(profile.birthDate, today))
        .wakeWindowMax

\* C23: the warning 'overtired' is returned exactly when there are at least 2
\* usable sessions and the gap from the end of the second most recent one to
\* the start of the most recent one exceeds 1.2 times the wakeWindowMax of
\* the age bracket; it names these two sessions
C23_OvertiredTip ==
    Returned("evaluate") =>
        LET tips == TipsOf(coachTips, "overtired")
            usable == UsableDesc(sessions)
            long == /\ Len(usable) >= 2
                    /\ 10 * (usable[1].startISO - usable[2].endISO)
                         > 12 * BracketWakeWindowMax(activeProfile, LoadDate)
        IN  /\ Len(tips) = (IF long THEN 1 ELSE 0)
            /\ \A i \in 1..Len(tips) :
                  /\ tips[i].type = "warning"
                  /\ tips[i].relatedSessionIds
                        = <<usable[1].id, usable[2].id>>

\* a gap of 181 minutes for a baby in the bracket with a maximum of 150
C23_Witness ==
    /\ Returned("evaluate")
    /\ Len(TipsOf(coachTips, "overtired")) = 1
    /\ Len(sessions) = 2
    /\ sessions[2].startISO - sessions[1].endISO = 181
    /\ activeProfile.none

\* C24: with no usable session the coach returns the empty list; with 1 to 4
\* usable sessions it returns the info tip 'insufficient-data' stating 5
\* minus their number; with 5 or more it does not return that tip
C24_InsufficientDataTip ==
    Returned("evaluate") =>
        LET tips == TipsOf(coachTips, "insufficient-data")
            count == Len(UsableDesc(sessions))
        IN  /\ count = 0 => coachTips = <<>>
            /\ count \in 1..4 =>
                  /\ Len(tips) = 1
                  /\ tips[1].type = "info"
                  /\ tips[1].message[1] = 5 - count
            /\ count >= 5 => Len(tips) = 0

\* three sessions logged, two of them usable: three more are needed
C24_Witness ==
    /\ Returned("evaluate")
    /\ Len(sessions) = 3
    /\ Len(UsableDesc(sessions)) = 2
    /\ Len(TipsOf(coachTips, "insufficient-data")) = 1
    /\ TipsOf(coachTips, "insufficient-data")[1].message[1] = 3

----------------------------------------------------------------------------
(* Properties of the blocks of a schedule *)

SleepBlocks(blocks) == SelectSeq(blocks, LAMBDA b : b.kind # "windDown")

\* the clock hour is in [19,22] or in [0,4)
BedtimeClockHour(t) ==
    LET hour == (t % 1440) \div 60
    IN  hour \in (19..22) \cup (0..3)

\* the nap estimate clamped into [napMin, napMax] of the profile's bracket
ClampedNap(learner, profile, today) ==
    LET bracket == getBaselineForAge(
                       IF profile.none THEN 6
                       ELSE calculateAgeInMonths(profile.birthDate, today))
    IN  IF learner.ewmaNapLengthMin < bracket.napMin THEN bracket.napMin
        ELSE IF learner.ewmaNapLengthMin > bracket.napMax THEN bracket.napMax
        ELSE learner.ewmaNapLengthMin

KindsAndDurations(blocks, learner, profile, today) ==
    \A i \in 1..Len(SleepBlocks(blocks)) :
        LET b == SleepBlocks(blocks)[i]
        IN  /\ b.kind = (IF BedtimeClockHour(b.startISO) THEN "bedtime"
                         ELSE "nap")
            /\ b.kind = "bedtime" => b.endISO - b.startISO = 660
            /\ b.kind = "nap" =>
                  b.endISO - b.startISO = ClampedNap(learner, profile, today)

Horizon(current) == ((current \div 1440) + 2) * 1440

WithinHorizon(blocks, current) ==
    \A i \in 1..Len(blocks) :
        /\ blocks[i].startISO < Horizon(current)
        /\ blocks[i].endISO > current

\* C26: every block of a schedule starts before the horizon, the local
\* midnight that begins the day after tomorrow, and ends strictly after now
C26_BlocksWithinHorizon ==
    /\ Returned("generate") => WithinHorizon(schedule, now)
    /\ Returned("whatIf") => WithinHorizon(whatIf, now)

\* a block starting in the last half hour before the horizon, and a what-if
\* block that has started by now and is not over
C26_Witness ==
    /\ Returned("whatIf")
    /\ \E i \in 1..Len(schedule) :
          schedule[i].startISO >= Horizon(now) - 30
    /\ \E i \in 1..Len(whatIf) :
          whatIf[i].startISO <= now /\ whatIf[i].endISO > now

\* the schedule the last call returned
LastSchedule ==
    IF done = <<>> THEN <<>>
    ELSE IF done[Len(done)] = "generate" THEN schedule
    ELSE IF done[Len(done)] = "generateAgain" THEN schedule2
    ELSE whatIf

\* C27: every call of generate returns, its loop having made at most 20
\* iterations, each of which adds at most a wind-down and a sleep block; so
\* it does when the adjusted wake window is zero or negative
C27_AtMostTwentyIterations ==
    /\ iterations \in 0..20
    /\ Len(LastSchedule) <= 2 * iterations

\* simulated time does not advance: the loop is ended by the cap
C27_Witness ==
    /\ Returned("whatIf")
    /\ learnerState.ewmaWakeWindowMin + adjustment < 0
    /\ learnerState.ewmaWakeWindowMin + adjustment
         + learnerState.ewmaNapLengthMin < 0
    /\ iterations = 20

\* each block starts at or after the end of the block before it
NoOverlap(blocks) ==
    \A i \in 1..(Len(blocks) - 1) : blocks[i + 1].startISO >= blocks[i].endISO

\* C30: with a wake-window estimate of at least 30 minutes no two blocks of a
\* schedule overlap: each block starts at or after the end of the block
\* before it, also where the morning after a bedtime was pulled back by 15
\* minutes
C30_NoOverlap ==
    /\ Returned("generate") /\ learnerState.ewmaWakeWindowMin >= 30
          => NoOverlap(schedule)
    /\ Returned("whatIf") /\ learnerState.ewmaWakeWindowMin + adjustment >= 30
          => NoOverlap(whatIf)

\* the wind-down of the first nap of the morning starts at the minute the
\* bedtime block ends
C30_Witness ==
    /\ Returned("generate")
    /\ learnerState.ewmaWakeWindowMin = 30
    /\ \E i \in 1..(Len(schedule) - 1) :
          /\ schedule[i].kind = "bedtime"
          /\ schedule[i + 1].kind = "windDown"
          /\ schedule[i + 1].startISO = schedule[i].endISO

====
